---- MODULE Spec2Model ----
(***************************************************************************)
(* Exam-attendance verification app (React Native screens over a remote    *)
(* table store).  The model covers the remote tables, the registration     *)
(* screen (StudentRegistration.tsx), the verification screen               *)
(* (StudentVerification, src/unnamed/part_000) and the two reporting       *)
(* screens (AttendanceReports / StudentDetails, src/unnamed/part_003, and  *)
(* AttendanceDetailModal, src/unnamed/part_001).                           *)
(*                                                                         *)
(* Every `await` of a handler is a yield point: a handler is split into    *)
(* one action per segment between awaits.  The remote operation behind an  *)
(* await takes effect in the action that delivers its response.  The       *)
(* values a handler closes over (formData, selectedStudent, ...) are       *)
(* captured in its call record when it starts, as a JavaScript closure     *)
(* captures the values of the render it was created in.                    *)
(*                                                                         *)
(* Row fields that no handler reads (id, dates, session, semester, the     *)
(* image URL, the invigilator's name in a row) are left out of the rows.   *)
(***************************************************************************)
EXTENDS Integers, Sequences, FiniteSets, Bags, TLC

(* ---------------------------------------------------------------- bounds *)
MaxStudentRows == 2      \* rows the students table may grow to
MaxAttendanceRows == 2   \* rows the course_attendance table may grow to
MaxCalls == 2            \* handler calls in flight at once (concurrent specs)
MaxTimers == 1           \* pending setTimeout callbacks per screen
MaxLoadedStudents == 2   \* student rows on file when a list screen loads
MaxLoadedRecords == 2    \* attendance rows on file when a list screen loads

(* ------------------------------------------------------------ value sets *)
Matrics == {"CSC/2020/001", "CSC/2020/002"}
availableCourses == <<"CSC 301", "MTH 301">>
FullNames == {"", "ADA"}
InvigilatorNames == {"", "DR OBI"}
PlaceholderImage == "https://via.placeholder.com/150"
RegSessions == {1, 2}    \* devices showing the registration screen
VerSessions == {1, 2}    \* devices showing the verification screen

Front(seq) == SubSeq(seq, 1, Len(seq) - 1)
Range(s) == {s[i] : i \in DOMAIN s}
Includes(arr, x) == \E i \in DOMAIN arr : arr[i] = x
Filter(arr, Keep(_)) == SelectSeq(arr, Keep)

(* -------------------------------------------------------------- messages *)
NoMessage == [type |-> "none", text |-> ""]
MsgValidation ==
  [type |-> "error", text |-> "Please fill in all fields and select at least one course."]
MsgDuplicate(dups) ==
  [type |-> "error", text |-> "Student is already registered for: ", courses |-> dups]
MsgRegisterError == [type |-> "error", text |-> "Error registering student."]
MsgRegisterSuccess == [type |-> "success", text |-> "Student registered successfully!"]
MsgImage ==
  [type |-> "error", text |-> "Image upload is not yet implemented in React Native."]

EmptyForm == [fullName |-> "", matricNumber |-> "", image |-> "", courses |-> <<>>]
NoReturn == [fn |-> "none"]

VARIABLES
  students,            \* remote table 'students': sequence of rows, insertion order
  course_attendance,   \* remote table 'course_attendance'
  attendance_records,  \* remote table 'attendance_records'
  formData, regMessage, regLoading,        \* registration screen, per session
  matricNumber, selectedStudent, selectedCourse, invigilatorName,
  verMessage, verLoading,                  \* verification screen, per session
  reports,             \* AttendanceReports screen state
  details,             \* StudentDetails screen state
  home,                \* HomeScreen state
  calls,               \* bag of handler calls suspended at an await, and timers
  ret,                 \* ghost: what the step just taken returned / how it ended
  raced                \* ghost: keys whose existence check was passed by two calls
                       \* before either of them inserted

vars == <<students, course_attendance, attendance_records,
          formData, regMessage, regLoading,
          matricNumber, selectedStudent, selectedCourse, invigilatorName,
          verMessage, verLoading, reports, details, home, calls, ret, raced>>

dbVars == <<students, course_attendance, attendance_records>>
regVars == <<formData, regMessage, regLoading>>
listVars == <<reports, details, home>>
verVars == <<matricNumber, selectedStudent, selectedCourse, invigilatorName,
             verMessage, verLoading>>

(* ----------------------------------------------------------- remote store *)
\* Outcomes of one remote round trip: it is served, or it fails (network, server).
RemoteOutcomes(failures) == IF failures THEN {"ok", "error"} ELSE {"ok"}

RowsWithMatric(table, m) == Filter(table, LAMBDA row : row.matricNumber = m)

\* .eq('matricNumber', m).single(): the row when exactly one matches; otherwise
\* (none, or several) no data and the error code PGRST116.
(* mutant: an empty result is reported as a failure like any other *)
SelectSingleNoRowFails(table, m, outcome) ==
  LET rows == RowsWithMatric(table, m) IN
  IF outcome = "error" THEN [data |-> <<>>, error |-> "FAILED"]
  ELSE IF Len(rows) = 1 THEN [data |-> rows, error |-> "none"]
  ELSE [data |-> <<>>, error |-> "FAILED"]

SelectSingle(table, m, outcome) ==
  LET rows == RowsWithMatric(table, m) IN
  IF outcome = "error" THEN [data |-> <<>>, error |-> "FAILED"]
  ELSE IF Len(rows) = 1 THEN [data |-> rows, error |-> "none"]
  ELSE [data |-> <<>>, error |-> "PGRST116"]

(* ------------------------------------------------------- in-flight calls *)
Add(bag, k) == bag (+) SetToBag({k})
Remove(bag, k) == bag (-) SetToBag({k})
Calls == BagToSet(calls)
IsTimer(k) == k.op \in {"regTimer", "verTimer"}
NumHandlerCalls ==
  BagCardinality(calls)
    - BagCardinality([k \in {t \in Calls : IsTimer(t)} |-> calls[k]])
CallsOf(op, s) == {k \in Calls : k.op = op /\ k.s = s}
NumOf(op, s) == BagCardinality([k \in CallsOf(op, s) |-> calls[k]])
NumOp(op) == BagCardinality([k \in {c \in Calls : c.op = op} |-> calls[k]])

\* A handler may start: under `serial` only when no other handler call is in flight.
MayStart(serial) ==
  IF serial THEN NumHandlerCalls = 0 ELSE NumHandlerCalls < MaxCalls

(* ==================================================== StudentRegistration *)
RegTimer(r) == [op |-> "regTimer", s |-> r]
\* Room for the timer a handler schedules when it ends.
RegTimerRoom(r) == NumOf("regTimer", r) + NumOf("submit", r) < MaxTimers

setFullName(r, text) ==
  /\ formData[r].fullName # text
  /\ formData' = [formData EXCEPT ![r].fullName = text]
  /\ ret' = NoReturn
  /\ UNCHANGED <<listVars, verVars, dbVars, regMessage, regLoading, calls, raced>>

setMatricNumber(r, text) ==
  /\ formData[r].matricNumber # text
  /\ formData' = [formData EXCEPT ![r].matricNumber = text]
  /\ ret' = NoReturn
  /\ UNCHANGED <<listVars, verVars, dbVars, regMessage, regLoading, calls, raced>>

handleImageChange(r) ==
  /\ RegTimerRoom(r)
  /\ formData' = [formData EXCEPT ![r].image = PlaceholderImage]
  /\ regMessage' = [regMessage EXCEPT ![r] = MsgImage]
  /\ calls' = Add(calls, RegTimer(r))
  /\ ret' = NoReturn
  /\ UNCHANGED <<listVars, verVars, dbVars, regLoading, raced>>

(* mutant: the course is appended whether or not it is selected *)
ToggleCourseAppends(courses, courseCode) == Append(courses, courseCode)

ToggleCourse(courses, courseCode) ==
  IF Includes(courses, courseCode)
  THEN Filter(courses, LAMBDA c : c # courseCode)
  ELSE Append(courses, courseCode)

handleCourseToggle(r, courseCode) ==
  /\ formData' = [formData EXCEPT ![r].courses = ToggleCourse(@, courseCode)]
  /\ ret' = NoReturn
  /\ UNCHANGED <<listVars, verVars, dbVars, regMessage, regLoading, calls, raced>>

\* The body of checkDuplicateRegistration after its await.
\* (mutant: compares each requested course with the first stored course only)
DuplicateCoursesFirstOnly(res, courses) ==
  IF res.error # "none" /\ res.error # "PGRST116" THEN <<>>
  ELSE IF Len(res.data) > 0
  THEN Filter(courses, LAMBDA course : res.data[1].courses[1] = course)
  ELSE <<>>

DuplicateCourses(res, courses) ==
  IF res.error # "none" /\ res.error # "PGRST116" THEN <<>>
  ELSE IF Len(res.data) > 0
  THEN Filter(courses, LAMBDA course : Includes(res.data[1].courses, course))
  ELSE <<>>

(* mutant: the check of the course selection is left out *)
FormInvalidButCourses(f) ==
  f.fullName = "" \/ f.matricNumber = "" \/ f.image = ""

FormInvalid(f) ==
  f.fullName = "" \/ f.matricNumber = "" \/ f.image = "" \/ Len(f.courses) = 0

\* handleSubmit up to its first await (inside checkDuplicateRegistration).
handleSubmit(r, serial) ==
  /\ ~regLoading[r]
  /\ IF FormInvalid(formData[r])
     THEN /\ regMessage' = [regMessage EXCEPT ![r] = MsgValidation]
          /\ regLoading' = [regLoading EXCEPT ![r] = FALSE]
          /\ ret' = [fn |-> "handleSubmit", s |-> r, outcome |-> "invalid",
                     form |-> formData[r]]
          /\ UNCHANGED calls
     ELSE /\ MayStart(serial)
          /\ RegTimerRoom(r)
          /\ Len(students) + NumOp("submit") < MaxStudentRows
          /\ regLoading' = [regLoading EXCEPT ![r] = TRUE]
          /\ calls' = Add(calls, [op |-> "submit", s |-> r, pc |-> "check",
                                  formData |-> formData[r]])
          /\ ret' = NoReturn
          /\ UNCHANGED regMessage
  /\ UNCHANGED <<listVars, verVars, dbVars, formData, raced>>

\* The lookup of checkDuplicateRegistration answers; handleSubmit runs on to its
\* return (duplicates) or to the await of the insert.
SubmitCheckResponse(k, outcome) ==
  LET r == k.s
      res == SelectSingle(students, k.formData.matricNumber, outcome)
      duplicateCourses == DuplicateCourses(res, k.formData.courses)
      result == [fn |-> "checkDuplicateRegistration", s |-> r,
                 matricNumber |-> k.formData.matricNumber,
                 courses |-> k.formData.courses,
                 error |-> res.error, value |-> duplicateCourses]
  IN
  /\ k.op = "submit" /\ k.pc = "check"
  /\ IF Len(duplicateCourses) > 0
     THEN /\ regMessage' = [regMessage EXCEPT ![r] = MsgDuplicate(duplicateCourses)]
          /\ regLoading' = [regLoading EXCEPT ![r] = FALSE]
          /\ calls' = Remove(calls, k)
          /\ ret' = result @@ [outcome |-> "rejected"]
          /\ UNCHANGED raced
     ELSE /\ regLoading' = [regLoading EXCEPT ![r] = FALSE]
          /\ calls' = Add(Remove(calls, k), [k EXCEPT !.pc = "insert"])
          /\ ret' = result @@ [outcome |-> "proceed"]
          /\ raced' = IF /\ outcome = "ok"
                          /\ Len(RowsWithMatric(students, k.formData.matricNumber)) = 0
                          /\ \E k2 \in Calls :
                               /\ k2.op = "submit" /\ k2.pc = "insert"
                               /\ k2.formData.matricNumber = k.formData.matricNumber
                       THEN raced \cup {<<"students", k.formData.matricNumber>>}
                       ELSE raced
          /\ UNCHANGED regMessage
  /\ UNCHANGED <<listVars, verVars, dbVars, formData>>

\* (mutant: the insert is skipped when the matric number is already on file)
SubmitInsertIfAbsent(k, outcome) ==
  LET r == k.s
      newStudent == [matricNumber |-> k.formData.matricNumber,
                     courses |-> k.formData.courses]
  IN
  /\ k.op = "submit" /\ k.pc = "insert"
  /\ regLoading' = [regLoading EXCEPT ![r] = FALSE]
  /\ IF outcome = "error"
     THEN /\ regMessage' = [regMessage EXCEPT ![r] = MsgRegisterError]
          /\ UNCHANGED <<students, formData>>
     ELSE /\ students' = IF Len(RowsWithMatric(students, newStudent.matricNumber)) = 0
                          THEN Append(students, newStudent) ELSE students
          /\ regMessage' = [regMessage EXCEPT ![r] = MsgRegisterSuccess]
          /\ formData' = [formData EXCEPT ![r] = EmptyForm]
  /\ calls' = Add(Remove(calls, k), RegTimer(r))
  /\ ret' = [fn |-> "handleSubmit", s |-> r,
             outcome |-> IF outcome = "error" THEN "insert_error" ELSE "inserted",
             form |-> k.formData]
  /\ UNCHANGED <<listVars, verVars, course_attendance, attendance_records, raced>>

\* The insert into 'students' answers; handleSubmit runs to its end.
SubmitInsertResponse(k, outcome) ==
  LET r == k.s
      newStudent == [matricNumber |-> k.formData.matricNumber,
                     courses |-> k.formData.courses]
  IN
  /\ k.op = "submit" /\ k.pc = "insert"
  /\ regLoading' = [regLoading EXCEPT ![r] = FALSE]
  /\ IF outcome = "error"
     THEN /\ regMessage' = [regMessage EXCEPT ![r] = MsgRegisterError]
          /\ UNCHANGED <<students, formData>>
     ELSE /\ students' = Append(students, newStudent)
          /\ regMessage' = [regMessage EXCEPT ![r] = MsgRegisterSuccess]
          /\ formData' = [formData EXCEPT ![r] = EmptyForm]
  /\ calls' = Add(Remove(calls, k), RegTimer(r))
  /\ ret' = [fn |-> "handleSubmit", s |-> r,
             outcome |-> IF outcome = "error" THEN "insert_error" ELSE "inserted",
             form |-> k.formData]
  /\ UNCHANGED <<listVars, verVars, course_attendance, attendance_records, raced>>

\* setTimeout(() => setMessage(null), 3000) fires.
RegTimerFire(r) ==
  /\ RegTimer(r) \in Calls
  /\ regMessage' = [regMessage EXCEPT ![r] = NoMessage]
  /\ calls' = Remove(calls, RegTimer(r))
  /\ ret' = NoReturn
  /\ UNCHANGED <<listVars, verVars, dbVars, formData, regLoading, raced>>

\* The user edits the form.
RegEdit(S) ==
  \/ \E r \in S, text \in FullNames : setFullName(r, text)
  \/ \E r \in S, text \in Matrics \cup {""} : setMatricNumber(r, text)
  \/ \E r \in S : handleImageChange(r)
  \/ \E r \in S, c \in Range(availableCourses) : handleCourseToggle(r, c)

\* The user submits; responses and timers arrive.
RegRun(S, serial, failures) ==
  \/ \E r \in S : handleSubmit(r, serial)
  \/ \E k \in Calls, o \in RemoteOutcomes(failures) : SubmitCheckResponse(k, o)
  \/ \E k \in Calls, o \in RemoteOutcomes(failures) : SubmitInsertResponse(k, o)
  \/ \E r \in S : RegTimerFire(r)

(* =================================================== StudentVerification *)
NoStudent == [matricNumber |-> "", courses |-> <<>>]    \* selectedStudent = null
MsgEnterMatric == [type |-> "error", text |-> "Please enter a matric number."]
MsgSearchError == [type |-> "error", text |-> "Error searching student."]
MsgNotFound ==
  [type |-> "error", text |-> "Student not found. Please check the matric number."]
MsgSelectCourse ==
  [type |-> "error", text |-> "Please select a course and enter invigilator name."]
MsgAlreadyVerified ==
  [type |-> "error", text |-> "Student has already been verified for this course exam."]
MsgMarkError == [type |-> "error", text |-> "Error marking attendance."]
MsgMarkSuccess == [type |-> "success", text |-> "Student attendance marked successfully!"]

VerTimer(v) == [op |-> "verTimer", s |-> v]
VerTimerRoom(v) == NumOf("verTimer", v) + NumOf("mark", v) < MaxTimers

\* Rows of course_attendance with both fields equal.
AttendanceRows(table, matricNum, courseCode) ==
  Filter(table, LAMBDA a : a.matricNumber = matricNum /\ a.courseCode = courseCode)

\* onChangeText of the matric number input (the text arrives upper-cased).
changeMatricNumber(v, text) ==
  /\ matricNumber[v] # text
  /\ matricNumber' = [matricNumber EXCEPT ![v] = text]
  /\ ret' = NoReturn
  /\ UNCHANGED <<listVars, dbVars, regVars, selectedStudent, selectedCourse, invigilatorName,
                 verMessage, verLoading, calls, raced>>

changeInvigilatorName(v, text) ==
  /\ invigilatorName[v] # text
  /\ invigilatorName' = [invigilatorName EXCEPT ![v] = text]
  /\ ret' = NoReturn
  /\ UNCHANGED <<listVars, dbVars, regVars, matricNumber, selectedStudent, selectedCourse,
                 verMessage, verLoading, calls, raced>>

\* The course Picker, rendered while a student is selected: "" or one of the
\* selected student's courses.
pickCourse(v, itemValue) ==
  /\ selectedStudent[v] # NoStudent
  /\ itemValue = "" \/ Includes(selectedStudent[v].courses, itemValue)
  /\ selectedCourse[v] # itemValue
  /\ selectedCourse' = [selectedCourse EXCEPT ![v] = itemValue]
  /\ ret' = NoReturn
  /\ UNCHANGED <<listVars, dbVars, regVars, matricNumber, selectedStudent, invigilatorName,
                 verMessage, verLoading, calls, raced>>

\* ghost keys: the newest search of screen v, issued while another was in flight
SearchKeys(v) == {<<"search", v, m>> : m \in Matrics}

\* handleSearch up to its await.
handleSearch(v, serial) ==
  /\ IF matricNumber[v] = ""
     THEN /\ verMessage' = [verMessage EXCEPT ![v] = MsgEnterMatric]
          /\ ret' = [fn |-> "handleSearch", s |-> v, outcome |-> "empty"]
          /\ UNCHANGED <<verLoading, calls, raced>>
     ELSE /\ MayStart(serial)
          /\ verLoading' = [verLoading EXCEPT ![v] = TRUE]
          /\ calls' = Add(calls, [op |-> "search", s |-> v,
                                  matricNumber |-> matricNumber[v]])
          /\ ret' = NoReturn
          \* ghost: the matric number of the newest of several searches in flight
          /\ raced' = (raced \ SearchKeys(v))
                        \cup IF NumOf("search", v) > 0
                             THEN {<<"search", v, matricNumber[v]>>} ELSE {}
          /\ UNCHANGED verMessage
  /\ UNCHANGED <<listVars, dbVars, regVars, matricNumber, selectedStudent, selectedCourse,
                 invigilatorName>>

\* The Search button is disabled while loading.
pressSearch(v, serial) == ~verLoading[v] /\ handleSearch(v, serial)

\* The Enter key in the matric number input starts a search whatever `loading` is.
handleKeyPress(v, serial) == handleSearch(v, serial)

\* The student lookup answers; handleSearch runs to its end.
SearchResponse(k, outcome) ==
  LET v == k.s
      res == SelectSingle(students, k.matricNumber, outcome)
  IN
  /\ k.op = "search"
  /\ verLoading' = [verLoading EXCEPT ![v] = FALSE]
  /\ IF res.error # "none" /\ res.error # "PGRST116"
     THEN /\ verMessage' = [verMessage EXCEPT ![v] = MsgSearchError]
          /\ selectedStudent' = [selectedStudent EXCEPT ![v] = NoStudent]
     ELSE IF Len(res.data) > 0
     THEN /\ selectedStudent' = [selectedStudent EXCEPT ![v] = res.data[1]]
          /\ verMessage' = [verMessage EXCEPT ![v] = NoMessage]
     ELSE /\ selectedStudent' = [selectedStudent EXCEPT ![v] = NoStudent]
          /\ verMessage' = [verMessage EXCEPT ![v] = MsgNotFound]
  /\ calls' = Remove(calls, k)
  /\ ret' = [fn |-> "handleSearch", s |-> v, outcome |-> res.error,
             matricNumber |-> k.matricNumber]
  /\ UNCHANGED <<listVars, dbVars, regVars, matricNumber, selectedCourse, invigilatorName, raced>>

\* The value isAlreadyVerified returns once its lookup has answered.
\* (mutant: data.length > 1 in place of data.length > 0)
AlreadyVerifiedOffByOne(table, matricNum, courseCode, outcome) ==
  IF outcome = "error" THEN FALSE
  ELSE Len(AttendanceRows(table, matricNum, courseCode)) > 1

AlreadyVerified(table, matricNum, courseCode, outcome) ==
  IF outcome = "error" THEN FALSE
  ELSE Len(AttendanceRows(table, matricNum, courseCode)) > 0

(* mutant: the row takes the matric number typed in the input, not the one
   of the student found *)
handleMarkAttendanceTyped(v, serial) ==
  /\ selectedStudent[v] # NoStudent
  /\ ~verLoading[v]
  /\ IF selectedCourse[v] = "" \/ invigilatorName[v] = ""
     THEN /\ verMessage' = [verMessage EXCEPT ![v] = MsgSelectCourse]
          /\ ret' = [fn |-> "handleMarkAttendance", s |-> v, outcome |-> "invalid"]
          /\ UNCHANGED <<verLoading, calls>>
     ELSE /\ MayStart(serial)
          /\ VerTimerRoom(v)
          /\ Len(course_attendance) + NumOp("mark") < MaxAttendanceRows
          /\ verLoading' = [verLoading EXCEPT ![v] = TRUE]
          /\ calls' = Add(calls,
               [op |-> "mark", s |-> v, pc |-> "check",
                matricNumber |-> matricNumber[v],
                courseCode |-> selectedCourse[v],
                \* ghost: a row for the pair was on file when the action started
                existed |-> Len(AttendanceRows(course_attendance,
                                   matricNumber[v],
                                   selectedCourse[v])) > 0])
          /\ ret' = NoReturn
          /\ UNCHANGED verMessage
  /\ UNCHANGED <<listVars, dbVars, regVars, matricNumber, selectedStudent, selectedCourse,
                 invigilatorName, raced>>

\* handleMarkAttendance up to its first await (inside isAlreadyVerified).  The
\* button is part of the selected student's card and is disabled while loading.
handleMarkAttendance(v, serial) ==
  /\ selectedStudent[v] # NoStudent
  /\ ~verLoading[v]
  /\ IF selectedCourse[v] = "" \/ invigilatorName[v] = ""
     THEN /\ verMessage' = [verMessage EXCEPT ![v] = MsgSelectCourse]
          /\ ret' = [fn |-> "handleMarkAttendance", s |-> v, outcome |-> "invalid"]
          /\ UNCHANGED <<verLoading, calls>>
     ELSE /\ MayStart(serial)
          /\ VerTimerRoom(v)
          /\ Len(course_attendance) + NumOp("mark") < MaxAttendanceRows
          /\ verLoading' = [verLoading EXCEPT ![v] = TRUE]
          /\ calls' = Add(calls,
               [op |-> "mark", s |-> v, pc |-> "check",
                matricNumber |-> selectedStudent[v].matricNumber,
                courseCode |-> selectedCourse[v],
                \* ghost: a row for the pair was on file when the action started
                existed |-> Len(AttendanceRows(course_attendance,
                                   selectedStudent[v].matricNumber,
                                   selectedCourse[v])) > 0])
          /\ ret' = NoReturn
          /\ UNCHANGED verMessage
  /\ UNCHANGED <<listVars, dbVars, regVars, matricNumber, selectedStudent, selectedCourse,
                 invigilatorName, raced>>

\* The lookup of isAlreadyVerified answers; handleMarkAttendance runs on to its
\* return (already verified) or to the await of the insert.
MarkCheckResponse(k, outcome) ==
  LET v == k.s
      alreadyVerified ==
        AlreadyVerified(course_attendance, k.matricNumber, k.courseCode, outcome)
      result == [fn |-> "isAlreadyVerified", s |-> v, call |-> k,
                 error |-> (outcome = "error"), value |-> alreadyVerified]
  IN
  /\ k.op = "mark" /\ k.pc = "check"
  /\ IF alreadyVerified
     THEN /\ verLoading' = [verLoading EXCEPT ![v] = FALSE]
          /\ verMessage' = [verMessage EXCEPT ![v] = MsgAlreadyVerified]
          /\ calls' = Remove(calls, k)
          /\ ret' = result @@ [outcome |-> "rejected"]
          /\ UNCHANGED raced
     ELSE /\ verLoading' = [verLoading EXCEPT ![v] = TRUE]
          /\ calls' = Add(Remove(calls, k), [k EXCEPT !.pc = "insert"])
          /\ ret' = result @@ [outcome |-> "proceed"]
          /\ raced' = IF /\ outcome = "ok"
                          /\ \E k2 \in Calls :
                               /\ k2.op = "mark" /\ k2.pc = "insert"
                               /\ k2.matricNumber = k.matricNumber
                               /\ k2.courseCode = k.courseCode
                       THEN raced \cup {<<"course_attendance", k.matricNumber, k.courseCode>>}
                       ELSE raced
          /\ UNCHANGED verMessage
  /\ UNCHANGED <<listVars, dbVars, regVars, matricNumber, selectedStudent, selectedCourse,
                 invigilatorName>>

\* (mutant: the insert is skipped when the pair is already on file)
MarkInsertIfAbsent(k, outcome) ==
  LET v == k.s
      attendance == [matricNumber |-> k.matricNumber, courseCode |-> k.courseCode]
  IN
  /\ k.op = "mark" /\ k.pc = "insert"
  /\ verLoading' = [verLoading EXCEPT ![v] = FALSE]
  /\ IF outcome = "error"
     THEN /\ verMessage' = [verMessage EXCEPT ![v] = MsgMarkError]
          /\ UNCHANGED <<course_attendance, selectedStudent, selectedCourse, matricNumber>>
     ELSE /\ course_attendance' =
               IF Len(AttendanceRows(course_attendance, k.matricNumber, k.courseCode)) = 0
               THEN Append(course_attendance, attendance) ELSE course_attendance
          /\ verMessage' = [verMessage EXCEPT ![v] = MsgMarkSuccess]
          /\ selectedStudent' = [selectedStudent EXCEPT ![v] = NoStudent]
          /\ selectedCourse' = [selectedCourse EXCEPT ![v] = ""]
          /\ matricNumber' = [matricNumber EXCEPT ![v] = ""]
  /\ calls' = Add(Remove(calls, k), VerTimer(v))
  /\ ret' = [fn |-> "handleMarkAttendance", s |-> v, call |-> k,
             outcome |-> IF outcome = "error" THEN "insert_error" ELSE "inserted"]
  /\ UNCHANGED <<listVars, students, attendance_records, regVars, invigilatorName, raced>>

\* (mutant: the insert overwrites the newest row on file, as an upsert would)
MarkInsertOverwrites(k, outcome) ==
  LET v == k.s
      attendance == [matricNumber |-> k.matricNumber, courseCode |-> k.courseCode]
  IN
  /\ k.op = "mark" /\ k.pc = "insert"
  /\ verLoading' = [verLoading EXCEPT ![v] = FALSE]
  /\ IF outcome = "error"
     THEN /\ verMessage' = [verMessage EXCEPT ![v] = MsgMarkError]
          /\ UNCHANGED <<course_attendance, selectedStudent, selectedCourse, matricNumber>>
     ELSE /\ course_attendance' =
               IF course_attendance = <<>> THEN <<attendance>>
               ELSE [course_attendance EXCEPT ![Len(course_attendance)] = attendance]
          /\ verMessage' = [verMessage EXCEPT ![v] = MsgMarkSuccess]
          /\ selectedStudent' = [selectedStudent EXCEPT ![v] = NoStudent]
          /\ selectedCourse' = [selectedCourse EXCEPT ![v] = ""]
          /\ matricNumber' = [matricNumber EXCEPT ![v] = ""]
  /\ calls' = Add(Remove(calls, k), VerTimer(v))
  /\ ret' = [fn |-> "handleMarkAttendance", s |-> v, call |-> k,
             outcome |-> IF outcome = "error" THEN "insert_error" ELSE "inserted"]
  /\ UNCHANGED <<listVars, students, attendance_records, regVars, invigilatorName, raced>>

\* The insert into 'course_attendance' answers; handleMarkAttendance runs to its end.
MarkInsertResponse(k, outcome) ==
  LET v == k.s
      attendance == [matricNumber |-> k.matricNumber, courseCode |-> k.courseCode]
  IN
  /\ k.op = "mark" /\ k.pc = "insert"
  /\ verLoading' = [verLoading EXCEPT ![v] = FALSE]
  /\ IF outcome = "error"
     THEN /\ verMessage' = [verMessage EXCEPT ![v] = MsgMarkError]
          /\ UNCHANGED <<course_attendance, selectedStudent, selectedCourse, matricNumber>>
     ELSE /\ course_attendance' = Append(course_attendance, attendance)
          /\ verMessage' = [verMessage EXCEPT ![v] = MsgMarkSuccess]
          /\ selectedStudent' = [selectedStudent EXCEPT ![v] = NoStudent]
          /\ selectedCourse' = [selectedCourse EXCEPT ![v] = ""]
          /\ matricNumber' = [matricNumber EXCEPT ![v] = ""]
  /\ calls' = Add(Remove(calls, k), VerTimer(v))
  /\ ret' = [fn |-> "handleMarkAttendance", s |-> v, call |-> k,
             outcome |-> IF outcome = "error" THEN "insert_error" ELSE "inserted"]
  /\ UNCHANGED <<listVars, students, attendance_records, regVars, invigilatorName, raced>>

\* setTimeout(() => setMessage(null), 3000) fires.
VerTimerFire(v) ==
  /\ VerTimer(v) \in Calls
  /\ verMessage' = [verMessage EXCEPT ![v] = NoMessage]
  /\ calls' = Remove(calls, VerTimer(v))
  /\ ret' = NoReturn
  /\ UNCHANGED <<listVars, dbVars, regVars, matricNumber, selectedStudent, selectedCourse,
                 invigilatorName, verLoading, raced>>

\* The invigilator edits the inputs.
VerEdit(S) ==
  \/ \E v \in S, text \in Matrics \cup {""} : changeMatricNumber(v, text)
  \/ \E v \in S, text \in InvigilatorNames : changeInvigilatorName(v, text)

\* Searching and picking a course.
VerSearch(S, serial, failures) ==
  \/ \E v \in S : pressSearch(v, serial)
  \/ \E v \in S : handleKeyPress(v, serial)
  \/ \E k \in Calls, o \in RemoteOutcomes(failures) : SearchResponse(k, o)
  \/ \E v \in S, c \in Range(availableCourses) \cup {""} : pickCourse(v, c)

\* Marking attendance; responses and timers arrive.
VerMark(S, serial, failures) ==
  \/ \E v \in S : handleMarkAttendance(v, serial)
  \/ \E k \in Calls, o \in RemoteOutcomes(failures) : MarkCheckResponse(k, o)
  \/ \E k \in Calls, o \in RemoteOutcomes(failures) : MarkInsertResponse(k, o)
  \/ \E v \in S : VerTimerFire(v)

(* ====================================== AttendanceReports / StudentDetails *)
\* State of a list screen before its fetch has answered: the useState defaults.
ScreenDefaults ==
  [mounted |-> FALSE, students |-> <<>>, attendanceRecords |-> <<>>,
   loading |-> TRUE, error |-> ""]
ReportsLoadError == "Failed to load data. Please try again."
RemoteErrorText == "FetchError"       \* err.message of a failed remote call

\* Math.round((num / den) * 100) for integers num >= 0, den > 0: halves round up.
PercentRound(num, den) == (200 * num + den) \div (2 * den)

\* --- AttendanceReports
getStudentsForCourse(studentList, courseCode) ==
  Filter(studentList, LAMBDA student : Includes(student.courses, courseCode))

getAttendanceForCourse(records, courseCode) ==
  Filter(records, LAMBDA record : record.courseCode = courseCode)

getCourseStats(studentList, records, courseCode) ==
  LET registeredStudents == getStudentsForCourse(studentList, courseCode)
      attendanceList == getAttendanceForCourse(records, courseCode)
  IN [registered |-> Len(registeredStudents),
      attended |-> Len(attendanceList),
      percentage |-> IF Len(registeredStudents) > 0
                     THEN PercentRound(Len(attendanceList), Len(registeredStudents))
                     ELSE 0]

\* --- AttendanceDetailModal({course, students, attendanceRecords})
(* mutant: the attended count takes only the registered students found present *)
DetailModalCountsPresent(course, studentList, records) ==
  LET registeredStudents == Filter(studentList, LAMBDA st : Includes(st.courses, course))
      courseAttendance == Filter(records, LAMBDA a : a.courseCode = course)
      attendedCount ==
        Len(Filter(registeredStudents,
                   LAMBDA st : \E i \in DOMAIN courseAttendance :
                                  courseAttendance[i].matricNumber = st.matricNumber))
  IN [registered |-> Len(registeredStudents),
      attendedCount |-> attendedCount,
      absentCount |-> Len(registeredStudents) - attendedCount,
      attendancePercentage |-> IF Len(registeredStudents) > 0
                               THEN PercentRound(attendedCount, Len(registeredStudents))
                               ELSE 0]

AttendanceDetailModal(course, studentList, records) ==
  LET registeredStudents == Filter(studentList, LAMBDA st : Includes(st.courses, course))
      courseAttendance == Filter(records, LAMBDA a : a.courseCode = course)
      attendedCount == Len(courseAttendance)
  IN [registered |-> Len(registeredStudents),
      attendedCount |-> attendedCount,
      absentCount |-> Len(registeredStudents) - attendedCount,
      attendancePercentage |-> IF Len(registeredStudents) > 0
                               THEN PercentRound(attendedCount, Len(registeredStudents))
                               ELSE 0]

\* --- StudentDetails
(* mutant: only records of the student's own courses are taken *)
getStudentAttendanceEnrolled(records, student) ==
  Filter(records, LAMBDA record : record.matricNumber = student.matricNumber
                                   /\ Includes(student.courses, record.courseCode))

getStudentAttendance(records, student) ==
  Filter(records, LAMBDA record : record.matricNumber = student.matricNumber)

getAttendancePercentage(records, student) ==
  LET attended == Len(getStudentAttendance(records, student))
      total == Len(student.courses)
  IN IF total > 0 THEN PercentRound(attended, total) ELSE 0

\* --- fetchData of AttendanceReports (useEffect on mount)
ReportsMount ==
  /\ \A k \in Calls : k.op # "reportsFetch"
  /\ reports' = [ScreenDefaults EXCEPT !.mounted = TRUE]
  /\ calls' = Add(calls, [op |-> "reportsFetch", pc |-> "students"])
  /\ ret' = NoReturn
  /\ UNCHANGED <<dbVars, regVars, verVars, details, home, raced>>

ReportsStudentsResponse(k, outcome) ==
  /\ k.op = "reportsFetch" /\ k.pc = "students"
  /\ IF outcome = "error"
     THEN /\ reports' = [reports EXCEPT !.error = ReportsLoadError, !.loading = FALSE]
          /\ calls' = Remove(calls, k)
     ELSE /\ reports' = [reports EXCEPT !.students = students]
          /\ calls' = Add(Remove(calls, k), [k EXCEPT !.pc = "attendance"])
  /\ ret' = [fn |-> "AttendanceReports.fetchData", outcome |-> outcome]
  /\ UNCHANGED <<dbVars, regVars, verVars, details, home, raced>>

ReportsAttendanceResponse(k, outcome) ==
  /\ k.op = "reportsFetch" /\ k.pc = "attendance"
  /\ IF outcome = "error"
     THEN reports' = [reports EXCEPT !.error = ReportsLoadError, !.loading = FALSE]
     ELSE reports' = [reports EXCEPT !.attendanceRecords = course_attendance,
                                     !.loading = FALSE]
  /\ calls' = Remove(calls, k)
  /\ ret' = [fn |-> "AttendanceReports.fetchData", outcome |-> outcome]
  /\ UNCHANGED <<dbVars, regVars, verVars, details, home, raced>>

\* --- fetchData of StudentDetails (useEffect on mount)
DetailsMount ==
  /\ \A k \in Calls : k.op # "detailsFetch"
  /\ details' = [ScreenDefaults EXCEPT !.mounted = TRUE]
  /\ calls' = Add(calls, [op |-> "detailsFetch", pc |-> "students",
                          \* ghost: the rows mark attendance had inserted by now
                          before |-> course_attendance])
  /\ ret' = NoReturn
  /\ UNCHANGED <<dbVars, regVars, verVars, reports, home, raced>>

DetailsStudentsResponse(k, outcome) ==
  /\ k.op = "detailsFetch" /\ k.pc = "students"
  /\ IF outcome = "error"
     THEN /\ details' = [details EXCEPT !.error = RemoteErrorText, !.loading = FALSE]
          /\ calls' = Remove(calls, k)
     ELSE /\ details' = [details EXCEPT !.students = students]
          /\ calls' = Add(Remove(calls, k), [k EXCEPT !.pc = "attendance"])
  /\ ret' = [fn |-> "StudentDetails.fetchData", outcome |-> outcome,
             before |-> k.before]
  /\ UNCHANGED <<dbVars, regVars, verVars, reports, home, raced>>

DetailsAttendanceResponse(k, outcome) ==
  /\ k.op = "detailsFetch" /\ k.pc = "attendance"
  /\ IF outcome = "error"
     THEN details' = [details EXCEPT !.error = RemoteErrorText, !.loading = FALSE]
     ELSE details' = [details EXCEPT !.attendanceRecords = attendance_records,
                                     !.loading = FALSE]
  /\ calls' = Remove(calls, k)
  /\ ret' = [fn |-> "StudentDetails.fetchData", outcome |-> outcome,
             before |-> k.before]
  /\ UNCHANGED <<dbVars, regVars, verVars, reports, home, raced>>

ReportsNext(failures) ==
  \/ ReportsMount
  \/ \E k \in Calls, o \in RemoteOutcomes(failures) : ReportsStudentsResponse(k, o)
  \/ \E k \in Calls, o \in RemoteOutcomes(failures) : ReportsAttendanceResponse(k, o)

DetailsNext(failures) ==
  \/ DetailsMount
  \/ \E k \in Calls, o \in RemoteOutcomes(failures) : DetailsStudentsResponse(k, o)
  \/ \E k \in Calls, o \in RemoteOutcomes(failures) : DetailsAttendanceResponse(k, o)

(* ============================================================ HomeScreen *)
MaxLoads == 2     \* invocations of loadData (the mount and the retries)

HomeLoadError == "Failed to load data."
\* What a field read from a row that has no such column yields.
Undefined == "undefined"

\* useState defaults; `all` holds, per invocation of loadData, the state of its
\* Promise.all: how many loaders have fulfilled, whether it has settled, and
\* (ghost) how many of its loaders have failed.
HomeDefaults ==
  [mounted |-> FALSE, students |-> <<>>, attendanceRecords |-> <<>>,
   loading |-> TRUE, error |-> "", all |-> <<>>]

\* studentsData.map(student => ({..., matricNumber: student.matric_number,
\* courses: studentCourses.map(c => c.course_code)})): the rows on file carry
\* matricNumber and courses, not matric_number, and 'student_courses' is a table
\* the app never writes.
HomeStudentRows(table) ==
  [i \in DOMAIN table |-> [matricNumber |-> Undefined, courses |-> <<>>]]

\* data.map(record => ({..., matricNumber: record.matric_number,
\* courseCode: record.course_code}))
HomeAttendanceRows(table) ==
  [i \in DOMAIN table |-> [matricNumber |-> Undefined, courseCode |-> Undefined]]

(* mutant: setError(null) is left out *)
loadDataKeepsError ==
  /\ Len(home.all) < MaxLoads
  /\ home' = [home EXCEPT !.mounted = TRUE, !.loading = TRUE,
                          !.all = Append(@, [fulfilled |-> 0, state |-> "pending",
                                             failures |-> 0])]
  /\ calls' = calls (+) SetToBag({[op |-> "loadStudents", pc |-> "students",
                                   inv |-> Len(home.all) + 1],
                                  [op |-> "loadAttendance", inv |-> Len(home.all) + 1]})
  /\ ret' = NoReturn
  /\ UNCHANGED <<dbVars, regVars, verVars, reports, details, raced>>

\* loadData up to its await of Promise.all([loadStudents(), loadAttendance()]).
loadData ==
  /\ Len(home.all) < MaxLoads
  /\ home' = [home EXCEPT !.mounted = TRUE, !.loading = TRUE, !.error = "",
                          !.all = Append(@, [fulfilled |-> 0, state |-> "pending",
                                             failures |-> 0])]
  /\ calls' = calls (+) SetToBag({[op |-> "loadStudents", pc |-> "students",
                                   inv |-> Len(home.all) + 1],
                                  [op |-> "loadAttendance", inv |-> Len(home.all) + 1]})
  /\ ret' = NoReturn
  /\ UNCHANGED <<dbVars, regVars, verVars, reports, details, raced>>

\* useEffect(() => { loadData(); }, [])
HomeMount == ~home.mounted /\ loadData

\* The Retry button of the error view (rendered when not loading and error set).
HomeRetry == home.mounted /\ ~home.loading /\ home.error # "" /\ loadData

\* A loader of invocation n throws.  Promise.all rejects at the first
\* rejection: the catch of loadData sets the error and its finally ends the
\* loading; a rejection after the promise has settled has no handler.
Rejected(h, n) ==
  LET h1 == [h EXCEPT !.all[n].failures = @ + 1]
  IN IF h.all[n].state = "pending"
     THEN [h1 EXCEPT !.all[n].state = "rejected", !.error = HomeLoadError,
                     !.loading = FALSE]
     ELSE h1

\* A loader of invocation n returns.  Promise.all fulfils when both have, and
\* the finally of loadData ends the loading.
Fulfilled(h, n) ==
  LET h1 == [h EXCEPT !.all[n].fulfilled = @ + 1]
  IN IF h.all[n].state = "pending" /\ h1.all[n].fulfilled = 2
     THEN [h1 EXCEPT !.all[n].state = "fulfilled", !.loading = FALSE]
     ELSE h1

\* ghost: how the step ended; "loadData" when it settled invocation n
HomeReturn(h, n, loader) ==
  IF home.all[n].state = "pending" /\ h.all[n].state # "pending"
  THEN [fn |-> "loadData", inv |-> n]
  ELSE [fn |-> loader, inv |-> n]

\* loadStudents: the read of 'students' answers.
HomeStudentsResponse(k, outcome) ==
  /\ k.op = "loadStudents" /\ k.pc = "students"
  /\ IF outcome = "error"
     THEN /\ home' = Rejected(home, k.inv)
          /\ calls' = Remove(calls, k)
     ELSE /\ home' = home
          /\ calls' = Add(Remove(calls, k), [k EXCEPT !.pc = "student_courses"])
  /\ ret' = HomeReturn(home', k.inv, "loadStudents")
  /\ UNCHANGED <<dbVars, regVars, verVars, reports, details, raced>>

\* loadStudents: the read of 'student_courses' answers.
HomeCoursesResponse(k, outcome) ==
  /\ k.op = "loadStudents" /\ k.pc = "student_courses"
  /\ IF outcome = "error"
     THEN home' = Rejected(home, k.inv)
     ELSE home' = Fulfilled([home EXCEPT !.students = HomeStudentRows(students)], k.inv)
  /\ calls' = Remove(calls, k)
  /\ ret' = HomeReturn(home', k.inv, "loadStudents")
  /\ UNCHANGED <<dbVars, regVars, verVars, reports, details, raced>>

\* loadAttendance: the read of 'attendance_records' answers.
HomeAttendanceResponse(k, outcome) ==
  /\ k.op = "loadAttendance"
  /\ IF outcome = "error"
     THEN home' = Rejected(home, k.inv)
     ELSE home' = Fulfilled([home EXCEPT !.attendanceRecords =
                                           HomeAttendanceRows(attendance_records)], k.inv)
  /\ calls' = Remove(calls, k)
  /\ ret' = HomeReturn(home', k.inv, "loadAttendance")
  /\ UNCHANGED <<dbVars, regVars, verVars, reports, details, raced>>

HomeResponses(failures) ==
  \/ \E k \in Calls, o \in RemoteOutcomes(failures) : HomeStudentsResponse(k, o)
  \/ \E k \in Calls, o \in RemoteOutcomes(failures) : HomeCoursesResponse(k, o)
  \/ \E k \in Calls, o \in RemoteOutcomes(failures) : HomeAttendanceResponse(k, o)

HomeNext == HomeMount \/ HomeRetry \/ HomeResponses(TRUE)

(* ================================================================= specs *)
VerInit ==
  /\ matricNumber = [v \in VerSessions |-> ""]
  /\ selectedStudent = [v \in VerSessions |-> NoStudent]
  /\ selectedCourse = [v \in VerSessions |-> ""]
  /\ invigilatorName = [v \in VerSessions |-> ""]
  /\ verMessage = [v \in VerSessions |-> NoMessage]
  /\ verLoading = [v \in VerSessions |-> FALSE]

ListInit ==
  /\ reports = ScreenDefaults
  /\ details = ScreenDefaults
  /\ home = HomeDefaults

RegInit ==
  /\ formData = [r \in RegSessions |-> EmptyForm]
  /\ regMessage = [r \in RegSessions |-> NoMessage]
  /\ regLoading = [r \in RegSessions |-> FALSE]

Init ==
  /\ students = <<>>
  /\ course_attendance = <<>>
  /\ attendance_records = <<>>
  /\ formData = [r \in RegSessions |-> EmptyForm]
  /\ regMessage = [r \in RegSessions |-> NoMessage]
  /\ regLoading = [r \in RegSessions |-> FALSE]
  /\ VerInit
  /\ ListInit
  /\ calls = EmptyBag
  /\ ret = NoReturn
  /\ raced = {}

\* One registration screen, submissions one at a time, remote calls may fail.
RegSerialNext == RegEdit({1}) \/ RegRun({1}, TRUE, TRUE)
SpecRegSerial == Init /\ [][RegSerialNext]_vars

\* The same, with every remote call served.
RegSerialOkNext == RegEdit({1}) \/ RegRun({1}, TRUE, FALSE)
SpecRegSerialOk == Init /\ [][RegSerialOkNext]_vars

\* Two registration screens whose forms are filled in; submissions overlap freely
\* and every remote call is served.
ValidForms ==
  {[fullName |-> "ADA", matricNumber |-> m, image |-> PlaceholderImage, courses |-> cs] :
     m \in Matrics,
     cs \in {<<availableCourses[1]>>, <<availableCourses[2]>>,
             <<availableCourses[1], availableCourses[2]>>}}
InitRegRace ==
  /\ students = <<>>
  /\ course_attendance = <<>>
  /\ attendance_records = <<>>
  /\ formData \in [RegSessions -> ValidForms]
  /\ regMessage = [r \in RegSessions |-> NoMessage]
  /\ regLoading = [r \in RegSessions |-> FALSE]
  /\ VerInit
  /\ ListInit
  /\ calls = EmptyBag
  /\ ret = NoReturn
  /\ raced = {}
RegRaceNext == RegRun(RegSessions, FALSE, FALSE)
SpecRegRace == InitRegRace /\ [][RegRaceNext]_vars

(* ------------------------------------------------- verification screens *)
\* Student tables left by earlier registrations.
StudentsOnFile ==
  { << [matricNumber |-> "CSC/2020/001", courses |-> availableCourses],
       [matricNumber |-> "CSC/2020/002", courses |-> <<availableCourses[2]>>] >>,
    << [matricNumber |-> "CSC/2020/001", courses |-> <<availableCourses[1]>>] >> }

InitVerify ==
  /\ students \in StudentsOnFile
  /\ course_attendance = <<>>
  /\ attendance_records = <<>>
  /\ RegInit
  /\ VerInit
  /\ ListInit
  /\ calls = EmptyBag
  /\ ret = NoReturn
  /\ raced = {}

\* One verification screen, handlers one at a time, remote calls may fail.
VerSerialNext ==
  VerEdit({1}) \/ VerSearch({1}, TRUE, TRUE) \/ VerMark({1}, TRUE, TRUE)
SpecVerSerial == InitVerify /\ [][VerSerialNext]_vars

\* The same, with every remote call served.
VerSerialOkNext ==
  VerEdit({1}) \/ VerSearch({1}, TRUE, FALSE) \/ VerMark({1}, TRUE, FALSE)
SpecVerSerialOk == InitVerify /\ [][VerSerialOkNext]_vars

\* Two verification screens, each with a student found, a course picked and the
\* invigilator's name entered; their mark-attendance actions overlap freely, a
\* search starts when no call is in flight, and every remote call is served.
InitVerRace ==
  /\ students \in StudentsOnFile
  /\ course_attendance = <<>>
  /\ attendance_records = <<>>
  /\ RegInit
  /\ selectedStudent \in [VerSessions -> Range(students)]
  /\ matricNumber = [v \in VerSessions |-> selectedStudent[v].matricNumber]
  /\ selectedCourse \in [VerSessions -> Range(availableCourses)]
  /\ \A v \in VerSessions : Includes(selectedStudent[v].courses, selectedCourse[v])
  /\ invigilatorName = [v \in VerSessions |-> "DR OBI"]
  /\ verMessage = [v \in VerSessions |-> NoMessage]
  /\ verLoading = [v \in VerSessions |-> FALSE]
  /\ ListInit
  /\ calls = EmptyBag
  /\ ret = NoReturn
  /\ raced = {}
VerRaceNext == VerSearch(VerSessions, TRUE, FALSE) \/ VerMark(VerSessions, FALSE, FALSE)
SpecVerRace == InitVerRace /\ [][VerRaceNext]_vars

(* ------------------------------------------------------- report screens *)
\* What the remote tables may hold when a list screen is opened.  The store is
\* shared with other clients, so a row may list any courses (none included), and
\* the attendance tables may hold any rows.
ReportCourses == {"CSC 301", "CSC 302", "MTH 301"}
EnrollmentLists ==
  {<<>>, <<"CSC 301">>, <<"MTH 301">>, <<"CSC 301", "CSC 302">>,
   <<"CSC 301", "CSC 302", "MTH 301">>}
StudentRowValues == [matricNumber : Matrics, courses : EnrollmentLists]
AttendanceRowValues == [matricNumber : Matrics, courseCode : ReportCourses]
SeqsUpTo(S, n) == UNION {[1..len -> S] : len \in 0..n}

InitReports ==
  /\ students \in SeqsUpTo(StudentRowValues, MaxLoadedStudents)
  /\ course_attendance \in SeqsUpTo(AttendanceRowValues, MaxLoadedRecords)
  /\ attendance_records = <<>>
  /\ RegInit /\ VerInit /\ ListInit
  /\ calls = EmptyBag /\ ret = NoReturn /\ raced = {}
SpecReports == InitReports /\ [][ReportsNext(TRUE)]_vars

InitDetails ==
  /\ students \in SeqsUpTo(StudentRowValues, MaxLoadedStudents)
  /\ course_attendance = <<>>
  /\ attendance_records \in SeqsUpTo(AttendanceRowValues, MaxLoadedRecords)
  /\ RegInit /\ VerInit /\ ListInit
  /\ calls = EmptyBag /\ ret = NoReturn /\ raced = {}
SpecDetails == InitDetails /\ [][DetailsNext(TRUE)]_vars

(* ------------------------------------------------- allCourses (reports) *)
\* UTF-16 code units of the course codes; Array.prototype.sort() without a
\* comparator orders strings by them.
CodeUnits ==
  [c \in ReportCourses |->
     CASE c = "CSC 301" -> <<67, 83, 67, 32, 51, 48, 49>>
       [] c = "CSC 302" -> <<67, 83, 67, 32, 51, 48, 50>>
       [] c = "MTH 301" -> <<77, 84, 72, 32, 51, 48, 49>>]

RECURSIVE UnitsLess(_, _)
UnitsLess(a, b) ==
  IF a = <<>> THEN b # <<>>
  ELSE IF b = <<>> THEN FALSE
  ELSE IF Head(a) # Head(b) THEN Head(a) < Head(b)
  ELSE UnitsLess(Tail(a), Tail(b))

StringLess(x, y) == UnitsLess(CodeUnits[x], CodeUnits[y])

\* students.flatMap(student => student.courses)
RECURSIVE FlatCourses(_)
FlatCourses(studentList) ==
  IF studentList = <<>> THEN <<>>
  ELSE Head(studentList).courses \o FlatCourses(Tail(studentList))

\* Array.from(new Set(arr)): first occurrences, in insertion order
RECURSIVE ArrayFromSet(_)
ArrayFromSet(arr) ==
  IF arr = <<>> THEN <<>>
  ELSE LET front == ArrayFromSet(Front(arr))
       IN IF Includes(front, arr[Len(arr)]) THEN front
          ELSE Append(front, arr[Len(arr)])

\* arr.sort(): ascending by code units
RECURSIVE InsertSorted(_, _)
InsertSorted(sorted, x) ==
  IF sorted = <<>> THEN <<x>>
  ELSE IF StringLess(x, Head(sorted)) THEN <<x>> \o sorted
  ELSE <<Head(sorted)>> \o InsertSorted(Tail(sorted), x)

RECURSIVE Sort(_)
Sort(arr) ==
  IF arr = <<>> THEN <<>> ELSE InsertSorted(Sort(Front(arr)), arr[Len(arr)])

(* mutant: the trailing .sort() is dropped *)
allCoursesUnsorted(studentList) == ArrayFromSet(FlatCourses(studentList))

allCourses(studentList) == Sort(ArrayFromSet(FlatCourses(studentList)))

\* Student rows whose course lists are in any order, for the course list of
\* the reports screen.
AnyOrderLists ==
  {<<>>, <<"CSC 302">>, <<"MTH 301", "CSC 301">>, <<"CSC 301", "MTH 301">>,
   <<"MTH 301", "CSC 302", "CSC 301">>}
InitCourses ==
  /\ students \in SeqsUpTo([matricNumber : Matrics, courses : AnyOrderLists],
                           MaxLoadedStudents)
  /\ course_attendance = <<>>
  /\ attendance_records = <<>>
  /\ RegInit /\ VerInit /\ ListInit
  /\ calls = EmptyBag /\ ret = NoReturn /\ raced = {}
SpecCourses == InitCourses /\ [][ReportsNext(TRUE)]_vars

(* ------------------------------------------- error view of StudentDetails *)
\* The error view (shown when the fetch has ended in an error) renders one
\* control, "Try Again", whose onPress is the empty function.
DetailsTryAgain ==
  /\ details.mounted /\ ~details.loading /\ details.error # ""
  /\ ret' = [fn |-> "StudentDetails.TryAgain"]
  /\ UNCHANGED <<dbVars, regVars, verVars, listVars, calls, raced>>

DetailsViewNext == DetailsNext(TRUE) \/ DetailsTryAgain
SpecDetailsView == InitDetails /\ [][DetailsViewNext]_vars

(* ------------------------------------------------- single-row lookups *)
\* One registration screen with its form filled in and one verification screen
\* with a matric number typed; the student may or may not be on file.  Handlers
\* run one at a time and every remote call is served.
InitLookup ==
  /\ students \in {<<>>} \cup StudentsOnFile
  /\ course_attendance = <<>>
  /\ attendance_records = <<>>
  /\ formData \in {[r \in RegSessions |-> IF r = 1 THEN f ELSE EmptyForm] : f \in ValidForms}
  /\ regMessage = [r \in RegSessions |-> NoMessage]
  /\ regLoading = [r \in RegSessions |-> FALSE]
  /\ matricNumber \in {[v \in VerSessions |-> IF v = 1 THEN m ELSE ""] : m \in Matrics}
  /\ selectedStudent = [v \in VerSessions |-> NoStudent]
  /\ selectedCourse = [v \in VerSessions |-> ""]
  /\ invigilatorName = [v \in VerSessions |-> ""]
  /\ verMessage = [v \in VerSessions |-> NoMessage]
  /\ verLoading = [v \in VerSessions |-> FALSE]
  /\ ListInit
  /\ calls = EmptyBag
  /\ ret = NoReturn
  /\ raced = {}
LookupNext == RegRun({1}, TRUE, FALSE) \/ VerSearch({1}, TRUE, FALSE)
SpecLookup == InitLookup /\ [][LookupNext]_vars

(* ------------------------------------------------------ both tables *)
\* One registration screen with its form filled in and one verification screen
\* with a matric number typed and the invigilator's name entered, over tables
\* that may already hold rows.  Handlers run one at a time; remote calls may fail.
InitTables ==
  /\ students \in {<<>>} \cup StudentsOnFile
  /\ course_attendance \in
       {<<>>, <<[matricNumber |-> "CSC/2020/002", courseCode |-> "MTH 301"]>>}
  /\ attendance_records = <<>>
  /\ formData \in {[r \in RegSessions |-> IF r = 1 THEN f ELSE EmptyForm] : f \in ValidForms}
  /\ regMessage = [r \in RegSessions |-> NoMessage]
  /\ regLoading = [r \in RegSessions |-> FALSE]
  /\ matricNumber \in {[v \in VerSessions |-> IF v = 1 THEN m ELSE ""] : m \in Matrics}
  /\ selectedStudent = [v \in VerSessions |-> NoStudent]
  /\ selectedCourse = [v \in VerSessions |-> ""]
  /\ invigilatorName = [v \in VerSessions |-> IF v = 1 THEN "DR OBI" ELSE ""]
  /\ verMessage = [v \in VerSessions |-> NoMessage]
  /\ verLoading = [v \in VerSessions |-> FALSE]
  /\ ListInit
  /\ calls = EmptyBag
  /\ ret = NoReturn
  /\ raced = {}
TablesNext ==
  RegRun({1}, TRUE, TRUE) \/ VerSearch({1}, TRUE, TRUE) \/ VerMark({1}, TRUE, TRUE)
SpecTables == InitTables /\ [][TablesNext]_vars

(* ------------------------------------- marking, then opening the details *)
\* One verification screen with a matric number typed and the invigilator's
\* name entered, and the StudentDetails screen, which may be opened at any
\* time.  Every remote call is served.
InitMarkDetails ==
  /\ students \in StudentsOnFile
  /\ course_attendance = <<>>
  /\ attendance_records = <<>>
  /\ RegInit
  /\ matricNumber \in {[v \in VerSessions |-> IF v = 1 THEN m ELSE ""] : m \in Matrics}
  /\ selectedStudent = [v \in VerSessions |-> NoStudent]
  /\ selectedCourse = [v \in VerSessions |-> ""]
  /\ invigilatorName = [v \in VerSessions |-> IF v = 1 THEN "DR OBI" ELSE ""]
  /\ verMessage = [v \in VerSessions |-> NoMessage]
  /\ verLoading = [v \in VerSessions |-> FALSE]
  /\ ListInit
  /\ calls = EmptyBag
  /\ ret = NoReturn
  /\ raced = {}
MarkDetailsNext ==
  VerSearch({1}, TRUE, FALSE) \/ VerMark({1}, TRUE, FALSE) \/ DetailsNext(FALSE)
SpecMarkDetails == InitMarkDetails /\ [][MarkDetailsNext]_vars

(* ------------------------------------------------- overlapping searches *)
\* One verification screen with a matric number typed; the invigilator edits
\* the input and starts searches (button or Enter key) that may overlap.
\* Every remote call is served.
SearchRaceNext == VerEdit({1}) \/ VerSearch({1}, FALSE, FALSE)
SpecSearchRace == InitMarkDetails /\ [][SearchRaceNext]_vars

(* ------------------------------------- marking, then opening the reports *)
\* One verification screen (handlers one at a time) and the AttendanceReports
\* screen, which may be opened at any time.  Every remote call is served.
MarkReportsNext ==
  \/ VerEdit({1})
  \/ VerSearch({1}, TRUE, FALSE)
  \/ VerMark({1}, TRUE, FALSE)
  \/ ReportsNext(FALSE)
SpecMarkReports == InitMarkDetails /\ [][MarkReportsNext]_vars

(* ------------------------------------ student list of the detail modal *)
\* registeredStudents.map(student => ...): one card per registered student,
\* with isPresent = !!getAttendanceStatus(student.matricNumber).
StudentCards(course, studentList, records) ==
  LET registeredStudents == Filter(studentList, LAMBDA st : Includes(st.courses, course))
      courseAttendance == Filter(records, LAMBDA a : a.courseCode = course)
      getAttendanceStatus(matricNum) ==
        Filter(courseAttendance, LAMBDA a : a.matricNumber = matricNum)
  IN [i \in DOMAIN registeredStudents |->
        [matricNumber |-> registeredStudents[i].matricNumber,
         isPresent |-> getAttendanceStatus(registeredStudents[i].matricNumber) # <<>>]]

(* ------------------------------------------------------------ HomeScreen *)
\* The HomeScreen is opened over tables that may hold rows; remote calls may
\* fail, and each of them eventually returns.
InitHome ==
  /\ students \in {<<>>} \cup StudentsOnFile
  /\ course_attendance = <<>>
  /\ attendance_records \in SeqsUpTo(AttendanceRowValues, 1)
  /\ RegInit /\ VerInit /\ ListInit
  /\ calls = EmptyBag /\ ret = NoReturn /\ raced = {}
SpecHome == InitHome /\ [][HomeNext]_vars /\ WF_vars(HomeResponses(TRUE))

(* --------------------------------------- getAttendanceDetails (reports) *)
\* students.find(s => s.matricNumber === m): the first match, or undefined
\* (NoStudent stands for it).
FindStudent(studentList, m) ==
  LET hits == Filter(studentList, LAMBDA st : st.matricNumber = m)
  IN IF hits = <<>> THEN NoStudent ELSE hits[1]

(* mutant: the trailing .filter(detail => detail.student) is dropped *)
getAttendanceDetailsUnfiltered(studentList, records, courseCode) ==
  LET attendanceList == getAttendanceForCourse(records, courseCode)
  IN [i \in DOMAIN attendanceList |->
        [student |-> FindStudent(studentList, attendanceList[i].matricNumber),
         attendance |-> attendanceList[i],
         status |-> "present"]]

getAttendanceDetails(studentList, records, courseCode) ==
  LET attendanceList == getAttendanceForCourse(records, courseCode)
      mapped == [i \in DOMAIN attendanceList |->
                   [student |-> FindStudent(studentList, attendanceList[i].matricNumber),
                    attendance |-> attendanceList[i],
                    status |-> "present"]]
  IN Filter(mapped, LAMBDA detail : detail.student # NoStudent)

(* ================================================================ claims *)
\* C1: a mark-attendance action started while the attendance table already held
\* a row for its (matric number, course code) pair ends, whatever its lookup
\* returned, with an error message on its screen and without inserting a row.
C1_ExistingPairRejected ==
  (ret.fn \in {"isAlreadyVerified", "handleMarkAttendance"}
     /\ ret.outcome \in {"rejected", "inserted", "insert_error"}
     /\ ret.call.existed)
  => /\ ret.outcome # "inserted"
     /\ verMessage[ret.s].type = "error"

\* C5: with mark-attendance actions run one at a time and every remote call
\* served, the attendance table holds at most one row per (matric number,
\* course code) pair.
C5_OneRowPerPair ==
  \A i, j \in DOMAIN course_attendance :
    (course_attendance[i].matricNumber = course_attendance[j].matricNumber
       /\ course_attendance[i].courseCode = course_attendance[j].courseCode)
    => i = j
C5_Witness ==
  /\ ret.fn = "isAlreadyVerified" /\ ret.outcome = "rejected"
  /\ Len(AttendanceRows(course_attendance, ret.call.matricNumber,
                         ret.call.courseCode)) = 1
  /\ verMessage[ret.s] = MsgAlreadyVerified

\* C6: when two mark-attendance actions for the same student and course both get
\* an empty existence lookup before either insert completes, and both inserts
\* succeed, the attendance table ends with two rows for that pair.
C6_RacedMarksBothInsert ==
  \A key \in raced :
    (key[1] = "course_attendance"
       /\ \A k \in Calls :
            k.op = "mark" => ~(k.matricNumber = key[2] /\ k.courseCode = key[3]))
    => Len(AttendanceRows(course_attendance, key[2], key[3])) >= 2
C6_Witness ==
  \E key \in raced :
    /\ key[1] = "course_attendance"
    /\ ret.fn = "handleMarkAttendance" /\ ret.outcome = "inserted"
    /\ ret.call.matricNumber = key[2] /\ ret.call.courseCode = key[3]
    /\ Len(AttendanceRows(course_attendance, key[2], key[3])) = 2
    /\ \A k \in Calls : k.op # "mark"

RowsFor(m) == RowsWithMatric(students, m)
\* Some row on file for m lists one of the requested courses.
StoredOverlap(table, m, courses) ==
  \E i \in DOMAIN table :
    /\ table[i].matricNumber = m
    /\ Range(table[i].courses) \cap Range(courses) # {}

\* C2: a submission for matric number m whose requested courses include a course
\* already on file for m is rejected (its duplicate check never lets it proceed)
\* and inserts no student row.
C2_OverlappingSubmissionRejected ==
  /\ (ret.fn = "checkDuplicateRegistration"
        /\ StoredOverlap(students, ret.matricNumber, ret.courses))
       => ret.outcome = "rejected"
  /\ (ret.fn = "handleSubmit" /\ ret.outcome = "inserted")
       => ~StoredOverlap(Front(students), ret.form.matricNumber, ret.form.courses)

\* C3: when exactly one student row has the proposed matric number and the lookup
\* succeeds, checkDuplicateRegistration returns exactly the requested course codes
\* that the row lists, each once, and handleSubmit goes on to the insert only if
\* that result is empty (and stops with the duplicate message otherwise).
C3_DuplicatesAreTheOverlap ==
  (ret.fn = "checkDuplicateRegistration" /\ ret.error = "none"
     /\ Len(RowsFor(ret.matricNumber)) = 1)
  => LET row == RowsFor(ret.matricNumber)[1] IN
     /\ Range(ret.value) = Range(ret.courses) \cap Range(row.courses)
     /\ Len(ret.value) = Cardinality(Range(ret.value))
     /\ ret.outcome = "proceed" => ret.value = <<>>
     /\ ret.outcome = "rejected" =>
          /\ regMessage[ret.s] = MsgDuplicate(ret.value)
          /\ \A k \in Calls : ~(k.op = "submit" /\ k.s = ret.s /\ k.pc = "insert")
C3_Witness ==
  /\ ret.fn = "checkDuplicateRegistration" /\ ret.error = "none"
  /\ Len(RowsFor(ret.matricNumber)) = 1
  /\ Len(ret.courses) = 2 /\ Len(ret.value) = 1
  /\ ret.outcome = "rejected"

\* C4: the students table holds at most one row per matric number.
C4_MatricNumberUnique ==
  \A i, j \in DOMAIN students :
    students[i].matricNumber = students[j].matricNumber => i = j

\* C7: when two submissions for a matric number with no row on file both pass
\* their duplicate check before either insert completes, and both inserts
\* succeed, the table ends with two rows for that matric number.
C7_RacedSubmissionsBothInsert ==
  \A m \in Matrics :
    (<<"students", m>> \in raced
       /\ \A k \in Calls : k.op = "submit" => k.formData.matricNumber # m)
    => Len(RowsFor(m)) >= 2
C7_Witness ==
  \E m \in Matrics :
    /\ <<"students", m>> \in raced
    /\ ret.fn = "handleSubmit" /\ ret.outcome = "inserted" /\ ret.form.matricNumber = m
    /\ Len(RowsFor(m)) = 2
    /\ \A k \in Calls : k.op # "submit"

\* p is num / den * 100 rounded to the nearest integer, halves upwards.
IsRounded(p, num, den) ==
  /\ 2 * den * p <= 200 * num + den
  /\ 200 * num + den < 2 * den * (p + 1)

\* C8: the percentage shown for a student S with enrollment list C is
\* round(|A \cap courses(S)| / |C| * 100), A being the set of course codes with an
\* attendance row for S's matric number, and 0 when C is empty.
C8_PercentageOfAttendedCourses ==
  \A i \in DOMAIN details.students :
    LET S == details.students[i]
        A == {rec.courseCode : rec \in {x \in Range(details.attendanceRecords) :
                                          x.matricNumber = S.matricNumber}}
        n == Cardinality(A \cap Range(S.courses))
        shown == getAttendancePercentage(details.attendanceRecords, S)
    IN IF Len(S.courses) = 0 THEN shown = 0 ELSE IsRounded(shown, n, Len(S.courses))

\* C9: the attended count of a student is the number of in-memory attendance rows
\* with the student's matric number, whatever their course code, and the
\* percentage is round(attended / number of enrolled courses * 100), or 0 for a
\* student without courses.
C9_PercentageOfAttendanceRows ==
  \A i \in DOMAIN details.students :
    LET S == details.students[i]
        rows == {j \in DOMAIN details.attendanceRecords :
                   details.attendanceRecords[j].matricNumber = S.matricNumber}
        attended == Len(getStudentAttendance(details.attendanceRecords, S))
        shown == getAttendancePercentage(details.attendanceRecords, S)
    IN /\ attended = Cardinality(rows)
       /\ IF Len(S.courses) = 0 THEN shown = 0
          ELSE IsRounded(shown, Cardinality(rows), Len(S.courses))
C9_Witness ==
  /\ details.mounted /\ ~details.loading /\ details.error = ""
  /\ \E i \in DOMAIN details.students :
       LET S == details.students[i] IN
       /\ Len(S.courses) = 3
       /\ Len(getStudentAttendance(details.attendanceRecords, S)) = 2
       /\ getAttendancePercentage(details.attendanceRecords, S) = 67

\* C10: for every course c the report card and the detail modal both show
\* registered = students whose enrollment list contains c, attended = attendance
\* rows with course code c, and percentage = round(attended / registered * 100),
\* 0 when nobody is registered; the two components agree.
C10_CourseStatsAndModalAgree ==
  \A c \in ReportCourses :
    LET registered == Cardinality({i \in DOMAIN reports.students :
                                     c \in Range(reports.students[i].courses)})
        attended == Cardinality({j \in DOMAIN reports.attendanceRecords :
                                   reports.attendanceRecords[j].courseCode = c})
        stats == getCourseStats(reports.students, reports.attendanceRecords, c)
        modal == AttendanceDetailModal(c, reports.students, reports.attendanceRecords)
    IN /\ stats.registered = registered
       /\ stats.attended = attended
       /\ IF registered = 0 THEN stats.percentage = 0
          ELSE IsRounded(stats.percentage, attended, registered)
       /\ modal.registered = stats.registered
       /\ modal.attendedCount = stats.attended
       /\ modal.attendancePercentage = stats.percentage
C10_Witness ==
  /\ reports.mounted /\ ~reports.loading /\ reports.error = ""
  /\ \E c \in ReportCourses :
       LET stats == getCourseStats(reports.students, reports.attendanceRecords, c) IN
       /\ stats.registered = 2 /\ stats.attended = 1 /\ stats.percentage = 50
       /\ AttendanceDetailModal(c, reports.students, reports.attendanceRecords)
            .attendancePercentage = 50

(* C11: for every student list loaded by the reports screen, allCourses holds
   exactly the course codes that occur in some student's enrollment list, each
   once, in ascending lexicographic order. *)
C11_AllCoursesDistinctSorted ==
  reports.mounted =>
    LET all == allCourses(reports.students)
    IN /\ Range(all) = UNION {Range(reports.students[i].courses) :
                                i \in DOMAIN reports.students}
       /\ \A i, j \in DOMAIN all : i < j => StringLess(all[i], all[j])

\* two students loaded whose lists repeat a code and list codes in descending order
C11_Witness ==
  /\ reports.mounted /\ ~reports.loading /\ reports.error = ""
  /\ Len(reports.students) = 2
  /\ Len(FlatCourses(reports.students)) > Len(allCourses(reports.students))
  /\ allCourses(reports.students) = <<"CSC 301", "CSC 302", "MTH 301">>
  /\ allCoursesUnsorted(reports.students) # allCourses(reports.students)

(* C12: when a remote call of the verification screen fails and the action
   that issued it ends, the data the screen held (matric number typed,
   selected student, selected course, invigilator name) is what it was
   before; only the message and the loading flag may differ. *)
C12_FailedCallKeepsData ==
  [][(/\ ret'.fn \in {"handleSearch", "handleMarkAttendance"}
      /\ ret'.outcome \in {"FAILED", "insert_error"})
     => UNCHANGED <<matricNumber, selectedStudent, selectedCourse, invigilatorName>>]_vars

(* C13: a failed remote call sets an error message on the screen that issued
   it; here the duplicate lookup of checkDuplicateRegistration: once it has
   answered with a failure, the registration screen shows an error message. *)
C13_FailedCallSetsErrorMessage ==
  (ret.fn = "checkDuplicateRegistration" /\ ret.error = "FAILED")
    => regMessage[ret.s].type = "error"

(* C14: an error is terminal for the action that met it; here mark
   attendance: once the lookup of isAlreadyVerified has failed, the action
   that issued it has no remote call (no insert) in flight. *)
C14_ErrorIsTerminal ==
  (ret.fn = "isAlreadyVerified" /\ ret.error)
    => \A k \in Calls : ~(k.op = "mark" /\ k.s = ret.s)

(* C15: after an action has ended in an error the screen has an enabled
   control that starts a new attempt; here StudentDetails: pressing the
   control of its error view ("Try Again") puts the screen back to loading
   with a new load of the lists in flight. *)
C15_RetryStartsNewAttempt ==
  (ret.fn = "StudentDetails.TryAgain")
    => (details.loading /\ \E k \in Calls : k.op = "detailsFetch")

(* C16: a single-row lookup that finds no row is a normal negative result:
   with no student row for the matric number, checkDuplicateRegistration
   returns the empty list and the registration proceeds, and handleSearch
   leaves no student selected and shows "Student not found", not the search
   error. *)
C16_NoRowIsNotAnError ==
  /\ (/\ ret.fn = "checkDuplicateRegistration"
      /\ RowsWithMatric(students, ret.matricNumber) = <<>>)
       => (ret.value = <<>> /\ ret.outcome = "proceed"
           /\ regMessage[ret.s].type # "error")
  /\ (/\ ret.fn = "handleSearch" /\ ret.outcome # "empty"
      /\ RowsWithMatric(students, ret.matricNumber) = <<>>)
       => (selectedStudent[ret.s] = NoStudent /\ verMessage[ret.s] = MsgNotFound)

\* a registration went through for a matric number not on file, and then a
\* search for another matric number found no row
C16_Witness ==
  /\ Len(students) = 1
  /\ formData[1] = EmptyForm
  /\ ret.fn = "handleSearch" /\ ret.outcome = "PGRST116"
  /\ ret.matricNumber # students[1].matricNumber
  /\ selectedStudent[1] = NoStudent
  /\ verMessage[1] = MsgNotFound

IsPrefix(a, b) == Len(a) <= Len(b) /\ SubSeq(b, 1, Len(a)) = a

(* C17: both tables are append-only: no step of any screen changes or removes
   a student row or an attendance row, so each table before a step is a
   prefix of the table after it. *)
C17_TablesAppendOnly ==
  [][/\ IsPrefix(students, students')
     /\ IsPrefix(course_attendance, course_attendance')
     /\ IsPrefix(attendance_records, attendance_records')]_vars

\* a student row and an attendance row were on file, and each table has
\* received one more row
C17_Witness ==
  /\ Len(students) = 2 /\ students[2].matricNumber = "CSC/2020/002"
  /\ students[1] = [matricNumber |-> "CSC/2020/001", courses |-> <<"CSC 301">>]
  /\ formData[1] = EmptyForm
  /\ Len(course_attendance) = 2
  /\ course_attendance[1] = [matricNumber |-> "CSC/2020/002", courseCode |-> "MTH 301"]
  /\ course_attendance[2].matricNumber = "CSC/2020/001"

(* C18: the attendance table is one table for all screens: every row that
   mark attendance had inserted when a load of StudentDetails started is in
   the attendance list that load obtains. *)
C18_MarkedRowsAreLoaded ==
  (/\ ret.fn = "StudentDetails.fetchData" /\ ret.outcome = "ok"
   /\ ~details.loading)
    => \A i \in DOMAIN ret.before :
         \E j \in DOMAIN details.attendanceRecords :
           details.attendanceRecords[j] = ret.before[i]

(* C19: the registration screen has a single thread of control: while a
   submission is in flight (from the start of handleSubmit until its final
   outcome) the loading flag of its screen is true, so that the submit button
   is disabled. *)
C19_LoadingWhileSubmitting ==
  \A k \in Calls : k.op = "submit" => regLoading[k.s]

(* C20: every attendance row inserted by handleMarkAttendance references a
   student: the students table holds a row with the row's matric number. *)
C20_AttendanceReferencesStudent ==
  \A i \in DOMAIN course_attendance :
    RowsWithMatric(students, course_attendance[i].matricNumber) # <<>>

\* attendance rows have been inserted for two different students, the second
\* just now
C20_Witness ==
  /\ ret.fn = "handleMarkAttendance" /\ ret.outcome = "inserted"
  /\ Len(course_attendance) = 2
  /\ course_attendance[1].matricNumber # course_attendance[2].matricNumber

(* C21: every attendance row the verification screen inserts has a course
   code from the enrollment list of the student it was inserted for (the
   student selected when the action started). *)
C21_InsertedCourseIsEnrolled ==
  \A i \in DOMAIN course_attendance :
    \E j \in DOMAIN students :
      /\ students[j].matricNumber = course_attendance[i].matricNumber
      /\ Includes(students[j].courses, course_attendance[i].courseCode)

\* The student a served search for matric number m selects.
FoundBy(m) ==
  LET rows == RowsWithMatric(students, m)
  IN IF Len(rows) = 1 THEN rows[1] ELSE NoStudent

(* C22: when several searches were issued on a verification screen and all
   have completed, the selected student is the result of the search issued
   last, whatever order the responses came in. *)
C22_LatestSearchWins ==
  (/\ ret.fn = "handleSearch" /\ ret.outcome # "empty"
   /\ NumOf("search", ret.s) = 0)
    => \A m \in Matrics :
         <<"search", ret.s, m>> \in raced => selectedStudent[ret.s] = FoundBy(m)

(* C23: every attendance percentage displayed is an integer from 0 to 100,
   for the lists the app's own actions produce; here the per-course
   percentages of AttendanceReports and of AttendanceDetailModal over the
   lists a load obtained after mark-attendance actions. *)
C23_PercentageWithinRange ==
  (reports.mounted /\ ~reports.loading /\ reports.error = "")
    => \A c \in Range(availableCourses) :
         /\ getCourseStats(reports.students, reports.attendanceRecords, c).percentage
              \in 0..100
         /\ AttendanceDetailModal(c, reports.students, reports.attendanceRecords)
              .attendancePercentage \in 0..100

(* C24: in AttendanceDetailModal, for every course and every loaded student
   and attendance list, the absent count is not negative, the attended count
   is the number of student cards rendered 'Attended' and the absent count
   is the number rendered 'Absent'. *)
C24_ModalCountsMatchCards ==
  (reports.mounted /\ ~reports.loading /\ reports.error = "")
    => \A c \in ReportCourses :
         LET modal == AttendanceDetailModal(c, reports.students, reports.attendanceRecords)
             cards == StudentCards(c, reports.students, reports.attendanceRecords)
         IN /\ modal.absentCount >= 0
            /\ modal.attendedCount = Len(Filter(cards, LAMBDA card : card.isPresent))
            /\ modal.absentCount = Len(Filter(cards, LAMBDA card : ~card.isPresent))

(* C25: when the full name, the matric number or the image is empty or no
   course is selected, handleSubmit issues no remote call and inserts no row;
   it sets the validation error message, leaves the form fields unchanged and
   ends with loading false. *)
C25_InvalidFormIsRejectedLocally ==
  [][(/\ handleSubmit(1, TRUE)
      /\ \/ formData[1].fullName = "" \/ formData[1].matricNumber = ""
         \/ formData[1].image = "" \/ Len(formData[1].courses) = 0)
     => /\ calls' = calls
        /\ students' = students
        /\ regMessage'[1] = MsgValidation
        /\ formData' = formData
        /\ ~regLoading'[1]]_vars

\* a form with everything but a course selected has just been submitted
C25_Witness ==
  /\ ret.fn = "handleSubmit" /\ ret.outcome = "invalid"
  /\ ret.form.fullName # "" /\ ret.form.matricNumber # "" /\ ret.form.image # ""
  /\ ret.form.courses = <<>>
  /\ formData[1] = ret.form
  /\ regMessage[1] = MsgValidation

(* C26: on HomeScreen, each remote call eventually returning, every
   invocation of loadData eventually finishes with loading false; when it
   finishes the error is set if and only if one of loadStudents and
   loadAttendance failed; and Retry, pressed in the error state, clears the
   error and starts a new loadData. *)
C26_LoadDataFinishes ==
  /\ (home.mounted /\ home.loading) ~> ~home.loading
  /\ [](ret.fn = "loadData"
         => /\ ~home.loading
            /\ (home.error # "") <=> (home.all[ret.inv].failures > 0))
  /\ [][HomeRetry => /\ home'.error = "" /\ home'.loading
                     /\ Len(home'.all) = Len(home.all) + 1
                     /\ \E k \in BagToSet(calls') : k.inv = Len(home'.all)]_vars

\* a first load failed, Retry was pressed, and the second load has finished
\* without an error
C26_Witness ==
  /\ ret.fn = "loadData" /\ ret.inv = 2
  /\ home.all[1].state = "rejected" /\ home.all[2].state = "fulfilled"
  /\ ~home.loading /\ home.error = ""

(* C27: every message set by handleSubmit or handleMarkAttendance is cleared
   by a timer which that action scheduled; so when handleSubmit has just
   ended setting a message, a timer to clear it is pending. *)
C27_MessageHasItsTimer ==
  (ret.fn = "handleSubmit" /\ regMessage[ret.s] # NoMessage)
    => RegTimer(ret.s) \in Calls

\* The rows of `records` for course c whose matric number some loaded student has.
MatchedRows(studentList, records, c) ==
  Filter(records, LAMBDA a : /\ a.courseCode = c
                             /\ \E i \in DOMAIN studentList :
                                  studentList[i].matricNumber = a.matricNumber)

(* C28: for every course c, getAttendanceDetails returns one entry per loaded
   attendance row of course c whose matric number some loaded student has,
   in order, and none for the other rows; so its length is at most the
   attended count of getCourseStats(c), with equality exactly when every
   attendance row of c has a matching student. *)
C28_DetailsAreTheMatchedRows ==
  (reports.mounted /\ ~reports.loading /\ reports.error = "")
    => \A c \in ReportCourses :
         LET det == getAttendanceDetails(reports.students, reports.attendanceRecords, c)
             matched == MatchedRows(reports.students, reports.attendanceRecords, c)
             attended == getCourseStats(reports.students, reports.attendanceRecords, c).attended
         IN /\ Len(det) = Len(matched)
            /\ \A i \in DOMAIN det :
                 /\ det[i].attendance = matched[i]
                 /\ det[i].student.matricNumber = matched[i].matricNumber
                 /\ \E j \in DOMAIN reports.students : reports.students[j] = det[i].student
            /\ Len(det) <= attended
            /\ (Len(det) = attended)
                 <=> \A k \in DOMAIN reports.attendanceRecords :
                       reports.attendanceRecords[k].courseCode = c
                         => \E j \in DOMAIN reports.students :
                              reports.students[j].matricNumber
                                = reports.attendanceRecords[k].matricNumber

\* two rows of one course are loaded, one of a loaded student and one of a
\* student who is not loaded
C28_Witness ==
  /\ reports.mounted /\ ~reports.loading /\ reports.error = ""
  /\ Len(reports.students) = 1
  /\ Len(getAttendanceForCourse(reports.attendanceRecords, "CSC 301")) = 2
  /\ Len(getAttendanceDetails(reports.students, reports.attendanceRecords, "CSC 301")) = 1

NoDuplicates(arr) == \A i, j \in DOMAIN arr : arr[i] = arr[j] => i = j

(* C29: after any sequence of handleCourseToggle calls from the empty
   selection the selected course list has no duplicates, and toggling one
   course twice in a row gives back the same set of selected courses. *)
C29_ToggleKeepsSelectionASet ==
  \A r \in RegSessions :
    /\ NoDuplicates(formData[r].courses)
    /\ \A c \in Range(availableCourses) :
         LET twice == ToggleCourse(ToggleCourse(formData[r].courses, c), c)
         IN Range(twice) = Range(formData[r].courses) /\ NoDuplicates(twice)

\* both courses are selected, in the order opposite to the catalogue's; toggling
\* the first of them twice moves it to the end
C29_Witness ==
  /\ formData[1].courses = <<"MTH 301", "CSC 301">>
  /\ ToggleCourse(ToggleCourse(formData[1].courses, "MTH 301"), "MTH 301")
       = <<"CSC 301", "MTH 301">>

====
